---- MODULE Spec2Model ----
(***************************************************************************)
(* Model of the regist chain engine: the transformation chain              *)
(* (string-transform.ts), the assertion chain (assert-that.ts), the two    *)
(* mode bridges and the negation flag, with a small part of the operation  *)
(* catalog (lib/transforms.ts, lib/assertions.ts).                         *)
(*                                                                         *)
(* A JavaScript string is a sequence of tokens, each token a TLA+ string:  *)
(* a subject is a sequence of one-character tokens, a literal part of an   *)
(* error message is one token, and a template literal is the               *)
(* concatenation of its parts.                                             *)
(***************************************************************************)
EXTENDS Integers, Sequences, FiniteSets, TLC

VARIABLES
    steps_T,         \* string-transform.ts: const steps: Step[]
    currentValue_T,  \* string-transform.ts: let currentValue
    steps_A,         \* assert-that.ts: const steps: Step[]
    negate_A,        \* assert-that.ts: let _negate
    currentValue_A,  \* assert-that.ts: let currentValue
    held,            \* the modes whose api object the caller has obtained
    conts,           \* the objects split(), whereValueAt(), wordCount() gave the caller
    frame,           \* the locals of a try() that is running step by step
    marks_A,         \* history: marks_A[i] iff isNot() was called right before step i was added
    pending_A,       \* history: isNot() was called since the last step was added
    call,            \* the call that was made last
    ret,             \* what that call returned or threw
    invoked,         \* the step operations that call invoked, in order
    handled          \* the handler calls that call made, in order

vars == <<steps_T, currentValue_T, steps_A, negate_A, currentValue_A, held,
          conts, frame, marks_A, pending_A, call, ret, invoked, handled>>

state_T == <<steps_T, currentValue_T>>
state_A == <<steps_A, negate_A, currentValue_A>>

\* Bound on the length of a transformation chain built alone (SpecT).
MaxChain_T == 3

\* Bound on the length of an assertion chain built alone (SpecA).
MaxChain_A == 2

\* Bound on the number of steps recorded in the two chains together (Spec).
MaxSteps == 2

\* Bounds on the subjects and chains of the escape round trip (SpecE).
MaxLen_E == 3
MaxChain_E == 2

\* Bounds on the subjects and chains of the catalog operations (SpecP): the
\* length of the short subjects, the length of the long ones, the chain.
MaxLen_P == 3
Len_H == 7
MaxChain_P == 1

\* Bounds of the step-by-step run of try() (SpecL): the chain, and the
\* number of iterations of one loop the model records.
MaxChain_L == 2
MaxIter == 4

\* Bound on the chains with callbacks that start a chain (SpecN).
MaxChain_N == 2

\* The subjects the entry functions are called with.
Subjects == {<<"a", "b">>, <<"a">>}

-----------------------------------------------------------------------------
(* Strings *)

RECURSIVE MapChars(_, _)
MapChars(f, s) ==
    IF s = <<>> THEN <<>>
    ELSE <<IF Head(s) \in DOMAIN f THEN f[Head(s)] ELSE Head(s)>> \o MapChars(f, Tail(s))

Upper == [c \in {"a", "b", "A", "B"} |->
            CASE c = "a" -> "A" [] c = "b" -> "B" [] OTHER -> c]

Lower == [c \in {"a", "b", "A", "B"} |->
            CASE c = "A" -> "a" [] c = "B" -> "b" [] OTHER -> c]

\* v.includes(p): p occurs in v as a contiguous run
includes(v, p) ==
    \E i \in 1..(Len(v) - Len(p) + 1) : SubSeq(v, i, i + Len(p) - 1) = p

-----------------------------------------------------------------------------
(* String.prototype methods the catalog uses, on sequences of one-character *)
(* tokens.  Indices are 0-based as in the source where the name says so.    *)

\* s.repeat(n)
RECURSIVE Repeat(_, _)
Repeat(s, n) == IF n <= 0 THEN <<>> ELSE s \o Repeat(s, n - 1)

\* the fill of padStart / padEnd: padString repeated and cut to n characters
Filler(padString, n) ==
    IF padString = <<>> \/ n <= 0
    THEN <<>>
    ELSE [i \in 1..n |-> padString[((i - 1) % Len(padString)) + 1]]

padStart(v, targetLength, padString) ==
    Filler(padString, targetLength - Len(v)) \o v

padEnd(v, targetLength, padString) ==
    v \o Filler(padString, targetLength - Len(v))

\* v.indexOf(p, from): the 0-based index of the first occurrence of p at or
\* after from, -1 when there is none
indexOf(v, p, from) ==
    LET start == IF from < 0 THEN 0 ELSE IF from > Len(v) THEN Len(v) ELSE from
        hits == { j \in start..(Len(v) - Len(p)) : SubSeq(v, j + 1, j + Len(p)) = p }
    IN IF hits = {} THEN -1 ELSE CHOOSE j \in hits : \A h \in hits : j <= h

\* v.slice(a, b) with 0 <= a
slice(v, a, b) == SubSeq(v, a + 1, IF b > Len(v) THEN Len(v) ELSE b)

\* arr.slice(start, end): a negative index counts from the end
arraySlice(arr, start, end) ==
    LET len == Len(arr)
        from == IF start < 0
                THEN (IF len + start < 0 THEN 0 ELSE len + start)
                ELSE (IF start > len THEN len ELSE start)
        to == IF end < 0
              THEN (IF len + end < 0 THEN 0 ELSE len + end)
              ELSE (IF end > len THEN len ELSE end)
    IN IF to <= from THEN <<>> ELSE SubSeq(arr, from + 1, to)

\* v.substring(a, b): both indices are brought into 0..v.length and swapped
\* when the first is the larger
substring(v, a, b) ==
    LET clamp(x) == IF x < 0 THEN 0 ELSE IF x > Len(v) THEN Len(v) ELSE x
        lo == IF clamp(a) <= clamp(b) THEN clamp(a) ELSE clamp(b)
        hi == IF clamp(a) <= clamp(b) THEN clamp(b) ELSE clamp(a)
    IN SubSeq(v, lo + 1, hi)

\* v.charAt(index): the empty string outside the value
charAt(v, index) ==
    IF index >= 0 /\ index < Len(v) THEN <<v[index + 1]>> ELSE <<>>

\* v.split(sep) for a separator of one character, and v.split("")
RECURSIVE splitOn(_, _, _)
splitOn(v, sep, part) ==
    IF v = <<>> THEN <<part>>
    ELSE IF <<Head(v)>> = sep
         THEN <<part>> \o splitOn(Tail(v), sep, <<>>)
         ELSE splitOn(Tail(v), sep, Append(part, Head(v)))

split(v, sep) ==
    IF sep = <<>> THEN [i \in 1..Len(v) |-> <<v[i]>>] ELSE splitOn(v, sep, <<>>)

\* parts.join(sep)
RECURSIVE joinWith(_, _)
joinWith(parts, sep) ==
    IF parts = <<>> THEN <<>>
    ELSE IF Len(parts) = 1 THEN parts[1]
    ELSE parts[1] \o sep \o joinWith(Tail(parts), sep)

\* v.trim().split(/\s+/).filter(Boolean).length: the number of maximal runs
\* of characters other than the blank
words(v) ==
    Cardinality({ i \in 1..Len(v) : v[i] # " " /\ (i = 1 \/ v[i - 1] = " ") })

\* the characters of the class [-/\\^$*+?.()|[\]{}]
Meta == {"-", "/", "\\", "^", "$", "*", "+", "?", ".", "(", ")", "|", "[", "]", "{", "}"}

-----------------------------------------------------------------------------
(* Numbers.  A JavaScript number that holds an integer is hi * 2^16 + lo    *)
(* with lo in 0..2^16-1, so that 32-bit wraparound can be computed.         *)

Limb == 65536

Num(hi, lo) == [hi |-> hi, lo |-> lo]

FromInt(n) == Num(n \div Limb, n % Limb)

\* ToInt32(x)
ToInt32(x) ==
    LET hiu == x.hi % Limb
    IN Num(IF hiu >= Limb \div 2 THEN hiu - Limb ELSE hiu, x.lo)

\* x << 5
ShiftLeft5(x) ==
    LET w == ToInt32(x)
        t == w.lo * 32
    IN ToInt32(Num(((w.hi % Limb) * 32 + t \div Limb) % Limb, t % Limb))

\* x + y
Plus(x, y) ==
    LET t == x.lo + y.lo
    IN Num(x.hi + y.hi + t \div Limb, t % Limb)

\* -x
Minus(x) == IF x.lo = 0 THEN Num(-x.hi, 0) ELSE Num(-x.hi - 1, Limb - x.lo)

DigitChar == <<"0", "1", "2", "3", "4", "5", "6", "7", "8", "9">>

\* the decimal digits of x >= 0
RECURSIVE Digits(_)
Digits(x) ==
    IF x.hi = 0 /\ x.lo < 10
    THEN <<DigitChar[x.lo + 1]>>
    ELSE LET t == (x.hi % 10) * Limb + x.lo
         IN Digits(Num(x.hi \div 10, t \div 10)) \o <<DigitChar[(t % 10) + 1]>>

\* x.toString() for an integer x
NumberToString(x) == IF x.hi < 0 THEN <<"-">> \o Digits(Minus(x)) ELSE Digits(x)

\* c.charCodeAt(0)
CharCode ==
    [c \in {"a", "b", "A", "B", ".", "\\", "-", "|"} |->
        CASE c = "a" -> 97 [] c = "b" -> 98 [] c = "A" -> 65 [] c = "B" -> 66
          [] c = "." -> 46 [] c = "\\" -> 92 [] c = "-" -> 45 [] OTHER -> 124]
    @@ [c \in {DigitChar[d] : d \in 1..10} |->
        47 + (CHOOSE d \in 1..10 : DigitChar[d] = c)]

-----------------------------------------------------------------------------
(* Thrown values.  site is the place that constructed the value: two       *)
(* values built at different places are different objects.                 *)

NoErr == [isError |-> FALSE, site |-> "none", message |-> <<>>]

NewError(site, message) == [isError |-> TRUE, site |-> site, message |-> message]

\* a thrown value that is not an Error: the string str
ThrownString(str) == [isError |-> FALSE, site |-> "value", message |-> str]

\* String(e), and the result of `${e}` in a template literal
StringOf(e) == IF e.isError THEN <<"Error: ">> \o e.message ELSE e.message

Ok(v) == [ok |-> TRUE, val |-> v, bool |-> FALSE, err |-> NoErr]
OkBool(b) == [ok |-> TRUE, val |-> <<>>, bool |-> b, err |-> NoErr]
Raise(e) == [ok |-> FALSE, val |-> <<>>, bool |-> FALSE, err |-> e]

-----------------------------------------------------------------------------
(* What a call returns *)

RetApi == [kind |-> "api", str |-> <<>>, bool |-> FALSE, err |-> NoErr]
RetString(v) == [kind |-> "string", str |-> v, bool |-> FALSE, err |-> NoErr]
RetBool(b) == [kind |-> "boolean", str |-> <<>>, bool |-> b, err |-> NoErr]
RetNull == [kind |-> "null", str |-> <<>>, bool |-> FALSE, err |-> NoErr]
RetThrow(e) == [kind |-> "throw", str |-> <<>>, bool |-> FALSE, err |-> e]
\* the object with the continuation methods that split(), whereValueAt()
\* and wordCount() return
RetCont == [kind |-> "cont", str |-> <<>>, bool |-> FALSE, err |-> NoErr]
\* the call has not returned
RetRunning == [kind |-> "running", str |-> <<>>, bool |-> FALSE, err |-> NoErr]

-----------------------------------------------------------------------------
(* Steps.  A step function is the closure a catalog method builds: op     *)
(* names the method's body and arg holds the arguments it captured.        *)

Fn(op, arg) == [op |-> op, arg |-> arg]

Step(name, fn) == [name |-> name, fn |-> fn]

\* one entry of the log of invocations: the step invoked, the value it was
\* given, whether its result was flipped, and how it ended
Invocation(name, input, negated, res) ==
    [name |-> name, input |-> input, negated |-> negated, res |-> res]

\* one call of the handler passed to try
HandlerCall(error, step, valueSoFar) ==
    [error |-> error, step |-> step, valueSoFar |-> valueSoFar]

-----------------------------------------------------------------------------
(* Callbacks the caller passes to customTransform / customCheck: what the  *)
(* callback does when it is called with v.                                  *)

CbReturn(v) == [kind |-> "string", val |-> v, bool |-> FALSE, json |-> <<>>, err |-> NoErr]
CbReturnBool(b) == [kind |-> "boolean", val |-> <<>>, bool |-> b, json |-> <<>>, err |-> NoErr]
CbReturnOther(json) == [kind |-> "other", val |-> <<>>, bool |-> FALSE, json |-> json, err |-> NoErr]
CbThrow(e) == [kind |-> "throw", val |-> <<>>, bool |-> FALSE, json |-> <<>>, err |-> e]

-----------------------------------------------------------------------------
(* Transformation chain: string-transform.ts and lib/transforms.ts *)

toUpperCase(v) == Ok(MapChars(Upper, v))

extract(pattern, v) ==
    IF ~includes(v, pattern)
    THEN Raise(NewError("extract", <<"No match found">>))
    ELSE Ok(pattern)

\* escapeString: v.replace(/[-/\\^$*+?.()|[\]{}]/g, "\\$&")
RECURSIVE escapeChars(_)
escapeChars(v) ==
    IF v = <<>> THEN <<>>
    ELSE (IF Head(v) \in Meta THEN <<"\\", Head(v)>> ELSE <<Head(v)>>)
            \o escapeChars(Tail(v))

\* Mutant of escapeString: the backslash is not in the class of characters
\* that are escaped.
RECURSIVE escapeChars_noBackslash(_)
escapeChars_noBackslash(v) ==
    IF v = <<>> THEN <<>>
    ELSE (IF Head(v) \in Meta \ {"\\"} THEN <<"\\", Head(v)>> ELSE <<Head(v)>>)
            \o escapeChars_noBackslash(Tail(v))

escapeString_noBackslash(v) == Ok(escapeChars_noBackslash(v))

escapeString(v) == Ok(escapeChars(v))

\* unEscapeString: v.replace(/\\([-/\\^$*+?.()|[\]{}])/g, "$1"), the matches
\* taken from left to right without overlap
RECURSIVE unEscapeChars(_)
unEscapeChars(v) ==
    IF v = <<>> THEN <<>>
    ELSE IF Head(v) = "\\" /\ Len(v) >= 2 /\ v[2] \in Meta
         THEN <<v[2]>> \o unEscapeChars(Tail(Tail(v)))
         ELSE <<Head(v)>> \o unEscapeChars(Tail(v))

unEscapeString(v) == Ok(unEscapeChars(v))

\* Mutant of pad: for "both" the left side gets the odd remainder.
pad_leftRemainder(len, char, where, v) ==
    IF where = "start" THEN Ok(padStart(v, len, char))
    ELSE IF where = "end" THEN Ok(padEnd(v, len, char))
    ELSE LET totalPad == len - Len(v)
         IN IF totalPad > 0
            THEN LET padEndLen == totalPad \div 2
                     padStartLen == totalPad - padEndLen
                 IN Ok(Repeat(char, padStartLen) \o v \o Repeat(char, padEndLen))
            ELSE Ok(v)

pad(len, char, where, v) ==
    IF where = "start" THEN Ok(padStart(v, len, char))
    ELSE IF where = "end" THEN Ok(padEnd(v, len, char))
    ELSE LET totalPad == len - Len(v)
         IN IF totalPad > 0
            THEN LET padStartLen == totalPad \div 2
                     padEndLen == totalPad - padStartLen
                 IN Ok(Repeat(char, padStartLen) \o v \o Repeat(char, padEndLen))
            ELSE Ok(v)

\* The callbacks that start and evaluate a chain of their own:
\*   (v) => stringTransform(v).toUpperCase().try()
\*   (v) => stringTransform(v).toUpperCase().pad(3, "-", "end").try()
Nested == {"nested1", "nested2"}

\* the steps such a callback records
NestedChain(cb) ==
    IF cb = "nested1"
    THEN <<[name |-> "toUpperCase", fn |-> [op |-> "toUpperCase", arg |-> <<>>]]>>
    ELSE <<[name |-> "toUpperCase", fn |-> [op |-> "toUpperCase", arg |-> <<>>]],
           [name |-> "pad",
            fn |-> [op |-> "pad",
                    arg |-> [len |-> 3, char |-> <<"-">>, where |-> "end"]]]>>

\* what such a callback returns on v: the result of its own chain
nestedTry(cb, v) ==
    IF cb = "nested1"
    THEN toUpperCase(v)
    ELSE pad(3, <<"-">>, "end", toUpperCase(v).val)

userFn(cb, v) ==
    CASE cb \in Nested  -> CbReturn(nestedTry(cb, v).val)
      [] cb = "lower"    -> CbReturn(MapChars(Lower, v))     \* (v) => v.toLowerCase()
      [] cb = "upper"    -> CbReturn(MapChars(Upper, v))     \* (v) => v.toUpperCase()
      [] cb = "isUpper"  -> CbReturnBool(v = MapChars(Upper, v)) \* (v) => v === v.toUpperCase()
      [] cb = "isLower"  -> CbReturnBool(v = MapChars(Lower, v)) \* (v) => v === v.toLowerCase()
      [] cb = "throw"    -> CbThrow(NewError("callback", <<"fail!">>)) \* () => { throw new Error("fail!") }
      [] cb = "number"   -> CbReturnOther(<<"42">>)          \* () => 42
      [] OTHER           -> CbThrow(ThrownString(<<cb>>))

\* Mutant of customTransform: the type of what the function returned is not
\* checked.
customTransform_unchecked(cb, v) ==
    LET r == userFn(cb, v)
    IN CASE r.kind = "throw" ->
              Raise(NewError("customTransform",
                             <<"Custom transform function failed: ">> \o StringOf(r.err)))
         [] r.kind = "string" -> Ok(r.val)
         [] OTHER -> Ok(r.json)

customTransform(cb, v) ==
    LET r == userFn(cb, v)
    IN CASE r.kind = "throw" ->
              Raise(NewError("customTransform",
                             <<"Custom transform function failed: ">> \o StringOf(r.err)))
         [] r.kind = "string" -> Ok(r.val)
         [] OTHER ->
              Raise(NewError("customTransform",
                             <<"Custom transform function must return a string, but returned ">>
                               \o r.json))

\* split(splitter).join(sep)
join(splitter, sep, v) == Ok(joinWith(split(v, splitter), sep))

\* split(splitter).takeThatAt(index)
takeThatAt(splitter, index, v) ==
    LET arr == split(v, splitter)
    IN IF index < 0 \/ index >= Len(arr)
       THEN Raise(NewError("takeThatAt", <<"Index out of range">>))
       ELSE Ok(arr[index + 1])

getCharacterAt(index, v) == Ok(charAt(v, index))

extractWhenBetween(prefix, suffix, v) ==
    LET startIdx == indexOf(v, prefix, 0)
        endIdx == indexOf(v, suffix, startIdx + Len(prefix))
    IN IF startIdx = -1 \/ endIdx = -1 \/ endIdx <= startIdx
       THEN Raise(NewError("extractWhenBetween", <<"Not found">>))
       ELSE Ok(slice(v, startIdx + Len(prefix), endIdx))

\* the loop of toHash from character i on; hash is a value, computed before
\* the next iteration
RECURSIVE toHashLoop(_, _, _)
toHashLoop(v, i, hash) ==
    IF i > Len(v) THEN hash
    ELSE CHOOSE result \in
            { toHashLoop(v, i + 1, h) :
                h \in {Plus(Plus(ShiftLeft5(hash), hash), FromInt(CharCode[v[i]]))} } : TRUE

toHash(v) == Ok(NumberToString(toHashLoop(v, 1, FromInt(5381))))

\* a step function registered through the exported addStep that throws the
\* string arg, a value that is not an Error
throwValue(arg, v) == Raise(ThrownString(arg))

evaluateStep_T(fn, valueSoFar) ==
    CASE fn.op = "toUpperCase"     -> toUpperCase(valueSoFar)
      [] fn.op = "extract"         -> extract(fn.arg, valueSoFar)
      [] fn.op = "customTransform" -> customTransform(fn.arg[1], valueSoFar)
      [] fn.op = "escapeString"    -> escapeString(valueSoFar)
      [] fn.op = "unEscapeString"  -> unEscapeString(valueSoFar)
      [] fn.op = "pad"             -> pad(fn.arg.len, fn.arg.char, fn.arg.where, valueSoFar)
      [] fn.op = "takeThatAt"      -> takeThatAt(fn.arg.splitter, fn.arg.index, valueSoFar)
      [] fn.op = "join"            -> join(fn.arg.splitter, fn.arg.sep, valueSoFar)
      [] fn.op = "getCharacterAt"  -> getCharacterAt(fn.arg.index, valueSoFar)
      [] fn.op = "extractWhenBetween" ->
              extractWhenBetween(fn.arg.prefix, fn.arg.suffix, valueSoFar)
      [] fn.op = "toHash"          -> toHash(valueSoFar)
      [] OTHER                     -> throwValue(fn.arg, valueSoFar)

addStep_T(steps, name, fn) == Append(steps, Step(name, fn))

\* Mutant of handleStepError_T: the handler is given the thrown value as it
\* is, not normalised to an Error.
handleStepError_T_raw(err, handler, name, lastStepValue) ==
    IF handler
    THEN [ret |-> RetNull, handled |-> <<HandlerCall(err, name, lastStepValue)>>]
    ELSE [ret |-> RetThrow(err), handled |-> <<>>]

\* Mutant of handleStepError_T: without a handler a new Error made from the
\* thrown value is thrown in its place.
handleStepError_T_wrap(err, handler, name, lastStepValue) ==
    IF handler
    THEN [ret |-> RetNull,
          handled |-> <<HandlerCall(
              IF err.isError THEN err ELSE NewError("handleStepError", StringOf(err)),
              name, lastStepValue)>>]
    ELSE [ret |-> RetThrow(NewError("handleStepError", StringOf(err))), handled |-> <<>>]

handleStepError_T(err, handler, name, lastStepValue) ==
    IF handler
    THEN [ret |-> RetNull,
          handled |-> <<HandlerCall(
              IF err.isError THEN err ELSE NewError("handleStepError", StringOf(err)),
              name, lastStepValue)>>]
    ELSE [ret |-> RetThrow(err), handled |-> <<>>]

\* steps and currentValue of the module once the function of a step has run
\* on valueSoFar: a callback that starts a chain calls stringTransform, which
\* empties the array and sets currentValue, and then records its own steps
stateAfter_T(fn, valueSoFar, st) ==
    IF fn.op = "customTransform" /\ fn.arg[1] \in Nested
    THEN [steps |-> NestedChain(fn.arg[1]), currentValue |-> valueSoFar]
    ELSE st

\* the loop of tryFn from step i on, with value the value so far:
\* for (const { name, fn } of steps) reads the array at index i each time
\* round and ends when i is past its end.  st is the module's steps and
\* currentValue; log is the steps this loop invoked.
RECURSIVE tryFn_T_loop(_, _, _, _, _)
tryFn_T_loop(st, i, value, handler, log) ==
    IF i > Len(st.steps)
    THEN [ret |-> RetString(value), invoked |-> log, handled |-> <<>>, st |-> st]
    ELSE LET r == evaluateStep_T(st.steps[i].fn, value)
             log2 == Append(log, Invocation(st.steps[i].name, value, FALSE,
                                            IF r.ok THEN "ok" ELSE "raise"))
             st2 == stateAfter_T(st.steps[i].fn, value, st)
         IN IF r.ok
            THEN tryFn_T_loop(st2, i + 1, r.val, handler, log2)
            ELSE LET h == handleStepError_T(r.err, handler, st.steps[i].name, value)
                 IN [ret |-> h.ret, invoked |-> log2, handled |-> h.handled, st |-> st2]

\* Mutant of tryFn_T: the steps are walked from the last added to the first.
tryFn_T_reversed(steps, currentValue, handler) ==
    [tryFn_T_loop([steps |-> [i \in 1..Len(steps) |-> steps[Len(steps) + 1 - i]],
                   currentValue |-> currentValue],
                  1, currentValue, handler, <<>>)
        EXCEPT !.st = [steps |-> steps, currentValue |-> currentValue]]

tryFn_T(steps, currentValue, handler) ==
    tryFn_T_loop([steps |-> steps, currentValue |-> currentValue],
                 1, currentValue, handler, <<>>)

\* The steps a caller can add to a transformation chain: name and closure.
Choices_T ==
    { Step("toUpperCase", Fn("toUpperCase", <<>>)),
      Step("extract", Fn("extract", <<"a">>)),
      Step("customTransform", Fn("customTransform", <<"throw">>)),
      Step("raw", Fn("throwValue", <<"boom">>)) }

-----------------------------------------------------------------------------
(* Assertion chain: assert-that.ts and lib/assertions.ts *)

has(str, v) == OkBool(includes(v, str))

isBetween(prefix, suffix, v) ==
    LET prefixIdx == indexOf(v, prefix, 0)
        suffixIdx == indexOf(v, suffix, prefixIdx + Len(prefix))
    IN OkBool(/\ prefixIdx # -1
              /\ suffixIdx # -1
              /\ prefixIdx + Len(prefix) < suffixIdx)

\* whereValueAt(idx).is(val): v[idx] === val
whereValueAtIs(idx, val, v) ==
    OkBool(idx >= 0 /\ idx < Len(v) /\ val = <<v[idx + 1]>>)

\* wordCount().is(n)
wordCountIs(n, v) == OkBool(words(v) = n)

customCheck(cb, v) ==
    LET r == userFn(cb, v)
    IN CASE r.kind = "throw" ->
              Raise(NewError("customCheck",
                             <<"Error evaluating predicate: ">> \o StringOf(r.err)))
         [] r.kind = "boolean" -> OkBool(r.bool)
         [] OTHER ->
              Raise(NewError("customCheck",
                             <<"Custom check function must return a boolean">>))

\* the step function fn called with v
predicate_A(fn, v) ==
    CASE fn.op = "has"         -> has(fn.arg, v)
      [] fn.op = "customCheck" -> customCheck(fn.arg[1], v)
      [] fn.op = "whereValueAt.is" -> whereValueAtIs(fn.arg.idx, fn.arg.val, v)
      [] fn.op = "wordCount.is" -> wordCountIs(fn.arg.n, v)
      [] OTHER                 -> throwValue(fn.arg, v)

\* Mutant of evaluateStep_A: with negate set the flag is cleared but the
\* result is not flipped.
evaluateStep_A_noFlip(fn, valueSoFar, negate, flag) ==
    LET r == predicate_A(fn, valueSoFar)
    IN IF ~r.ok
       THEN [ok |-> FALSE, result |-> FALSE, err |-> r.err, negated |-> FALSE, flag |-> flag]
       ELSE [ok |-> TRUE, result |-> r.bool, err |-> NoErr, negated |-> negate,
             flag |-> IF negate THEN FALSE ELSE flag]

\* Mutant of evaluateStep_A: with negate set the result is flipped but the
\* flag is left set.
evaluateStep_A_sticky(fn, valueSoFar, negate, flag) ==
    LET r == predicate_A(fn, valueSoFar)
    IN IF ~r.ok
       THEN [ok |-> FALSE, result |-> FALSE, err |-> r.err, negated |-> FALSE, flag |-> flag]
       ELSE IF negate
            THEN [ok |-> TRUE, result |-> ~r.bool, err |-> NoErr, negated |-> TRUE, flag |-> flag]
            ELSE [ok |-> TRUE, result |-> r.bool, err |-> NoErr, negated |-> FALSE, flag |-> flag]

\* evaluateStep(fn, valueSoFar, negate), with flag the value of _negate when
\* it is called: the result, whether it was flipped, and _negate afterwards
evaluateStep_A(fn, valueSoFar, negate, flag) ==
    LET r == predicate_A(fn, valueSoFar)
    IN IF ~r.ok
       THEN [ok |-> FALSE, result |-> FALSE, err |-> r.err, negated |-> FALSE, flag |-> flag]
       ELSE IF negate
            THEN [ok |-> TRUE, result |-> ~r.bool, err |-> NoErr, negated |-> TRUE, flag |-> FALSE]
            ELSE [ok |-> TRUE, result |-> r.bool, err |-> NoErr, negated |-> FALSE, flag |-> flag]

addStep_A(steps, name, fn) == Append(steps, Step(name, fn))

\* Mutant of handleStepError_A: after calling the handler it returns false.
handleStepError_A_false(err, handler, name, lastStepValue) ==
    IF handler
    THEN [ret |-> RetBool(FALSE),
          handled |-> <<HandlerCall(
              IF err.isError THEN err ELSE NewError("handleStepError", StringOf(err)),
              name, lastStepValue)>>]
    ELSE [ret |-> RetThrow(err), handled |-> <<>>]

handleStepError_A(err, handler, name, lastStepValue) ==
    IF handler
    THEN [ret |-> RetNull,
          handled |-> <<HandlerCall(
              IF err.isError THEN err ELSE NewError("handleStepError", StringOf(err)),
              name, lastStepValue)>>]
    ELSE [ret |-> RetThrow(err), handled |-> <<>>]

\* the loop of tryFn from step i on; flag is _negate
RECURSIVE tryFn_A_loop(_, _, _, _, _, _)
tryFn_A_loop(steps, i, valueSoFar, flag, handler, log) ==
    IF i > Len(steps)
    THEN [ret |-> RetBool(TRUE), invoked |-> log, handled |-> <<>>, flag |-> flag]
    ELSE LET r == evaluateStep_A(steps[i].fn, valueSoFar, flag, flag)
             log2 == Append(log, Invocation(steps[i].name, valueSoFar, r.negated,
                                IF ~r.ok THEN "raise"
                                ELSE IF r.result THEN "true" ELSE "false"))
         IN IF ~r.ok
            THEN LET h == handleStepError_A(r.err, handler, steps[i].name, valueSoFar)
                 IN [ret |-> h.ret, invoked |-> log2, handled |-> h.handled, flag |-> r.flag]
            ELSE IF ~r.result
                 THEN [ret |-> RetBool(FALSE), invoked |-> log2, handled |-> <<>>,
                       flag |-> r.flag]
                 ELSE tryFn_A_loop(steps, i + 1, valueSoFar, r.flag, handler, log2)

\* Mutant of tryFn_A: a false result does not end the loop; the conjunction
\* of the results is returned after the last step.
RECURSIVE tryFn_A_loop_all(_, _, _, _, _, _, _)
tryFn_A_loop_all(steps, i, valueSoFar, flag, handler, log, all) ==
    IF i > Len(steps)
    THEN [ret |-> RetBool(all), invoked |-> log, handled |-> <<>>, flag |-> flag]
    ELSE LET r == evaluateStep_A(steps[i].fn, valueSoFar, flag, flag)
             log2 == Append(log, Invocation(steps[i].name, valueSoFar, r.negated,
                                IF ~r.ok THEN "raise"
                                ELSE IF r.result THEN "true" ELSE "false"))
         IN IF ~r.ok
            THEN LET h == handleStepError_A(r.err, handler, steps[i].name, valueSoFar)
                 IN [ret |-> h.ret, invoked |-> log2, handled |-> h.handled, flag |-> r.flag]
            ELSE tryFn_A_loop_all(steps, i + 1, valueSoFar, r.flag, handler, log2,
                                  all /\ r.result)

tryFn_A_noShortCircuit(steps, currentValue, flag, handler) ==
    tryFn_A_loop_all(steps, 1, currentValue, flag, handler, <<>>, TRUE)

tryFn_A(steps, currentValue, flag, handler) ==
    tryFn_A_loop(steps, 1, currentValue, flag, handler, <<>>)

\* The steps a caller can add to an assertion chain: name and closure.
Choices_A ==
    { Step("has", Fn("has", <<"a">>)),
      Step("has", Fn("has", <<"b">>)),
      Step("customCheck", Fn("customCheck", <<"throw">>)),
      Step("raw", Fn("throwValue", <<"boom">>)) }

-----------------------------------------------------------------------------
(* Entry functions and bridges *)

\* stringTransform(stringToTransform): the module state it leaves
stringTransform(stringToTransform) ==
    [steps |-> <<>>, currentValue |-> stringToTransform]

\* Mutant of assertThat: the negation flag is left as it was.
assertThat_keepFlag(stringToValidate) ==
    [steps |-> <<>>, negate |-> negate_A, currentValue |-> stringToValidate]

\* assertThat(stringToValidate): the module state it leaves
assertThat(stringToValidate) ==
    [steps |-> <<>>, negate |-> FALSE, currentValue |-> stringToValidate]

\* Mutant of assertThatStart: the assertion chain is seeded with the chain's
\* subject and the message names the subject, not the value the steps produced.
assertThatStart_subject(steps, currentValue) ==
    LET r == tryFn_T(steps, currentValue, TRUE)
    IN IF r.ret.kind = "null" /\ r.handled # <<>>
       THEN LET errorInfo == r.handled[Len(r.handled)]
            IN [threw |-> TRUE,
                err |-> NewError("assertThatStart",
                          <<"Transformation failed at step \"", errorInfo.step, "\": ">>
                            \o errorInfo.error.message
                            \o <<"\nValue so far: ">> \o currentValue),
                invoked |-> r.invoked, handled |-> r.handled, st |-> r.st,
                next |-> assertThat(<<>>)]
       ELSE [threw |-> FALSE, err |-> NoErr,
             invoked |-> r.invoked, handled |-> r.handled, st |-> r.st,
             next |-> assertThat(currentValue)]

\* Mutant of assertThatStart: a failed transformation is not detected and the
\* assertion chain is started on the empty string.
assertThatStart_noCheck(steps, currentValue) ==
    LET r == tryFn_T(steps, currentValue, TRUE)
    IN [threw |-> FALSE, err |-> NoErr,
        invoked |-> r.invoked, handled |-> r.handled, st |-> r.st,
        next |-> assertThat(r.ret.str)]

\* assertThat() on a transformation chain
assertThatStart(steps, currentValue) ==
    CHOOSE b \in {
        IF r.ret.kind = "null" /\ r.handled # <<>>
        THEN LET errorInfo == r.handled[Len(r.handled)]
             IN [threw |-> TRUE,
                 err |-> NewError("assertThatStart",
                           <<"Transformation failed at step \"", errorInfo.step, "\": ">>
                             \o errorInfo.error.message
                             \o <<"\nValue so far: ">> \o errorInfo.valueSoFar),
                 invoked |-> r.invoked, handled |-> r.handled, st |-> r.st,
                 next |-> assertThat(<<>>)]
        ELSE [threw |-> FALSE, err |-> NoErr,
              invoked |-> r.invoked, handled |-> r.handled, st |-> r.st,
              next |-> assertThat(r.ret.str)]
        : r \in {tryFn_T(steps, currentValue, TRUE)} } : TRUE

\* Mutant of stringTransformStart: the transformation chain is seeded with
\* the boolean result of the assertions, as a string.
stringTransformStart_bool(steps, currentValue, flag) ==
    LET r == tryFn_A(steps, currentValue, flag, TRUE)
    IN IF r.ret.kind = "null" /\ r.handled # <<>>
       THEN LET errorInfo == r.handled[Len(r.handled)]
            IN [threw |-> TRUE,
                err |-> NewError("stringTransformStart",
                          <<"Assertion failed at step \"", errorInfo.step, "\": ">>
                            \o errorInfo.error.message
                            \o <<"\nValue so far: ">> \o errorInfo.valueSoFar),
                invoked |-> r.invoked, handled |-> r.handled,
                steps |-> steps, flag |-> r.flag,
                next |-> stringTransform(<<>>)]
       ELSE IF ~r.ret.bool
            THEN [threw |-> TRUE,
                  err |-> NewError("stringTransformStart",
                            <<"Assertion failed at step \"",
                              steps[Len(steps)].name, "\"">>),
                  invoked |-> r.invoked, handled |-> r.handled,
                  steps |-> SubSeq(steps, 1, Len(steps) - 1), flag |-> r.flag,
                  next |-> stringTransform(<<>>)]
            ELSE [threw |-> FALSE, err |-> NoErr,
                  invoked |-> r.invoked, handled |-> r.handled,
                  steps |-> steps, flag |-> r.flag,
                  next |-> stringTransform(<<"t", "r", "u", "e">>)]

\* Mutant of stringTransformStart: the result of the assertions is not
\* looked at and the transformation chain is started in every case.
stringTransformStart_noThrow(steps, currentValue, flag) ==
    LET r == tryFn_A(steps, currentValue, flag, TRUE)
    IN [threw |-> FALSE, err |-> NoErr,
        invoked |-> r.invoked, handled |-> r.handled,
        steps |-> steps, flag |-> r.flag,
        next |-> stringTransform(currentValue)]

\* Mutant of stringTransformStart: the steps recorded in the transformation
\* chain are kept when the new chain is started.
stringTransformStart_keepSteps(steps, currentValue, flag) ==
    LET r == tryFn_A(steps, currentValue, flag, TRUE)
    IN IF r.ret.kind = "null" /\ r.handled # <<>>
       THEN LET errorInfo == r.handled[Len(r.handled)]
            IN [threw |-> TRUE,
                err |-> NewError("stringTransformStart",
                          <<"Assertion failed at step \"", errorInfo.step, "\": ">>
                            \o errorInfo.error.message
                            \o <<"\nValue so far: ">> \o errorInfo.valueSoFar),
                invoked |-> r.invoked, handled |-> r.handled,
                steps |-> steps, flag |-> r.flag,
                next |-> stringTransform(<<>>)]
       ELSE IF ~r.ret.bool
            THEN [threw |-> TRUE,
                  err |-> NewError("stringTransformStart",
                            <<"Assertion failed at step \"",
                              steps[Len(steps)].name, "\"">>),
                  invoked |-> r.invoked, handled |-> r.handled,
                  steps |-> SubSeq(steps, 1, Len(steps) - 1), flag |-> r.flag,
                  next |-> stringTransform(<<>>)]
            ELSE [threw |-> FALSE, err |-> NoErr,
                  invoked |-> r.invoked, handled |-> r.handled,
                  steps |-> steps, flag |-> r.flag,
                  next |-> [steps |-> steps_T, currentValue |-> currentValue]]

\* stringTransform() on an assertion chain; steps is the step list it leaves
stringTransformStart(steps, currentValue, flag) ==
    CHOOSE b \in {
        IF r.ret.kind = "null" /\ r.handled # <<>>
        THEN LET errorInfo == r.handled[Len(r.handled)]
             IN [threw |-> TRUE,
                 err |-> NewError("stringTransformStart",
                           <<"Assertion failed at step \"", errorInfo.step, "\": ">>
                             \o errorInfo.error.message
                             \o <<"\nValue so far: ">> \o errorInfo.valueSoFar),
                 invoked |-> r.invoked, handled |-> r.handled,
                 steps |-> steps, flag |-> r.flag,
                 next |-> stringTransform(<<>>)]
        ELSE IF ~r.ret.bool
             THEN [threw |-> TRUE,
                   err |-> NewError("stringTransformStart",
                             <<"Assertion failed at step \"",
                               steps[Len(steps)].name, "\"">>),
                   invoked |-> r.invoked, handled |-> r.handled,
                   steps |-> SubSeq(steps, 1, Len(steps) - 1), flag |-> r.flag,
                   next |-> stringTransform(<<>>)]
             ELSE [threw |-> FALSE, err |-> NoErr,
                   invoked |-> r.invoked, handled |-> r.handled,
                   steps |-> steps, flag |-> r.flag,
                   next |-> stringTransform(currentValue)]
        : r \in {tryFn_A(steps, currentValue, flag, TRUE)} } : TRUE

-----------------------------------------------------------------------------
(* The state machine: one action per call a caller can make *)

Call(name, handler) == [name |-> name, handler |-> handler]

\* an entry call: its argument, and how many steps the module held when it
\* was made
EntryCall(name, arg, before) ==
    [name |-> name, handler |-> FALSE, arg |-> arg, before |-> before]

\* no try() is running
Idle ==
    [pc |-> "idle", handler |-> FALSE, k |-> 0, value |-> <<>>, log |-> <<>>,
     i |-> 0, chunks |-> <<>>, out |-> <<>>, iter |-> 0]

Init ==
    /\ conts = {}
    /\ frame = Idle
    /\ steps_T = <<>>
    /\ currentValue_T = <<>>
    /\ steps_A = <<>>
    /\ negate_A = FALSE
    /\ currentValue_A = <<>>
    /\ held = {}
    /\ marks_A = <<>>
    /\ pending_A = FALSE
    /\ call = Call("init", FALSE)
    /\ ret = RetApi
    /\ invoked = <<>>
    /\ handled = <<>>

\* stringTransform(s)
StringTransform(s) ==
    /\ steps_T' = stringTransform(s).steps
    /\ currentValue_T' = stringTransform(s).currentValue
    /\ held' = held \cup {"T"}
    /\ call' = EntryCall("stringTransform", s, Len(steps_T))
    /\ ret' = RetApi
    /\ invoked' = <<>>
    /\ handled' = <<>>
    /\ UNCHANGED <<steps_A, negate_A, currentValue_A, marks_A, pending_A>>
    /\ UNCHANGED <<conts, frame>>

\* a catalog method, customTransform or addStep on the transformation api
AddStep_T(step) ==
    /\ "T" \in held
    /\ steps_T' = addStep_T(steps_T, step.name, step.fn)
    /\ call' = Call("addStep_T", FALSE)
    /\ ret' = RetApi
    /\ invoked' = <<>>
    /\ handled' = <<>>
    /\ UNCHANGED <<currentValue_T, steps_A, negate_A, currentValue_A, held,
                   marks_A, pending_A>>
    /\ UNCHANGED <<conts, frame>>

\* Mutant of Try_T: the recorded steps are dropped once they were evaluated.
Try_T_consume(handler) ==
    /\ "T" \in held
    /\ \E r \in {tryFn_T(steps_T, currentValue_T, handler)} :
          /\ ret' = r.ret
          /\ invoked' = r.invoked
          /\ handled' = r.handled
    /\ call' = Call("try_T", handler)
    /\ steps_T' = <<>>
    /\ UNCHANGED <<currentValue_T, steps_A, negate_A, currentValue_A, held,
                   marks_A, pending_A>>
    /\ UNCHANGED <<conts, frame>>

\* try(handler) on the transformation api; handler tells whether one is passed
Try_T(handler) ==
    /\ "T" \in held
    /\ \E r \in {tryFn_T(steps_T, currentValue_T, handler)} :
          /\ ret' = r.ret
          /\ invoked' = r.invoked
          /\ handled' = r.handled
          /\ steps_T' = r.st.steps
          /\ currentValue_T' = r.st.currentValue
    /\ call' = Call("try_T", handler)
    /\ UNCHANGED <<steps_A, negate_A, currentValue_A, held, marks_A, pending_A>>
    /\ UNCHANGED <<conts, frame>>

\* assertThat() on the transformation api
AssertThatStart ==
    /\ "T" \in held
    /\ \E b \in {assertThatStart(steps_T, currentValue_T)} :
          /\ invoked' = b.invoked
          /\ handled' = b.handled
          /\ steps_T' = b.st.steps
          /\ currentValue_T' = b.st.currentValue
          /\ IF b.threw
             THEN /\ ret' = RetThrow(b.err)
                  /\ UNCHANGED <<steps_A, negate_A, currentValue_A, held,
                                 marks_A, pending_A>>
             ELSE /\ ret' = RetApi
                  /\ steps_A' = b.next.steps
                  /\ negate_A' = b.next.negate
                  /\ currentValue_A' = b.next.currentValue
                  /\ held' = held \cup {"A"}
                  /\ marks_A' = <<>>
                  /\ pending_A' = FALSE
    /\ call' = Call("assertThatStart", FALSE)
    /\ UNCHANGED <<conts, frame>>

\* assertThat(s)
AssertThat(s) ==
    /\ steps_A' = assertThat(s).steps
    /\ negate_A' = assertThat(s).negate
    /\ currentValue_A' = assertThat(s).currentValue
    /\ held' = held \cup {"A"}
    /\ marks_A' = <<>>
    /\ pending_A' = FALSE
    /\ call' = EntryCall("assertThat", s, Len(steps_A))
    /\ ret' = RetApi
    /\ invoked' = <<>>
    /\ handled' = <<>>
    /\ UNCHANGED <<steps_T, currentValue_T>>
    /\ UNCHANGED <<conts, frame>>

\* isNot()
IsNot ==
    /\ "A" \in held
    /\ negate_A' = TRUE
    /\ pending_A' = TRUE
    /\ call' = Call("isNot", FALSE)
    /\ ret' = RetApi
    /\ invoked' = <<>>
    /\ handled' = <<>>
    /\ UNCHANGED <<steps_T, currentValue_T, steps_A, currentValue_A, held,
                   marks_A>>
    /\ UNCHANGED <<conts, frame>>

\* Mutant of AddStep_A: the step is evaluated when it is added.
AddStep_A_eager(step) ==
    /\ "A" \in held
    /\ steps_A' = addStep_A(steps_A, step.name, step.fn)
    /\ marks_A' = Append(marks_A, pending_A)
    /\ pending_A' = FALSE
    /\ call' = Call("addStep_A", FALSE)
    /\ ret' = RetApi
    /\ invoked' = <<Invocation(step.name, currentValue_A, FALSE,
                      IF predicate_A(step.fn, currentValue_A).ok THEN "true" ELSE "raise")>>
    /\ handled' = <<>>
    /\ UNCHANGED <<steps_T, currentValue_T, negate_A, currentValue_A, held>>
    /\ UNCHANGED <<conts, frame>>

\* a catalog method, customCheck or addStep on the assertion api
AddStep_A(step) ==
    /\ "A" \in held
    /\ steps_A' = addStep_A(steps_A, step.name, step.fn)
    /\ marks_A' = Append(marks_A, pending_A)
    /\ pending_A' = FALSE
    /\ call' = Call("addStep_A", FALSE)
    /\ ret' = RetApi
    /\ invoked' = <<>>
    /\ handled' = <<>>
    /\ UNCHANGED <<steps_T, currentValue_T, negate_A, currentValue_A, held>>
    /\ UNCHANGED <<conts, frame>>

\* try(handler) on the assertion api
Try_A(handler) ==
    /\ "A" \in held
    /\ \E r \in {tryFn_A(steps_A, currentValue_A, negate_A, handler)} :
          /\ ret' = r.ret
          /\ invoked' = r.invoked
          /\ handled' = r.handled
          /\ negate_A' = r.flag
    /\ call' = Call("try_A", handler)
    /\ UNCHANGED <<steps_T, currentValue_T, steps_A, currentValue_A, held,
                   marks_A, pending_A>>
    /\ UNCHANGED <<conts, frame>>

\* stringTransform() on the assertion api
StringTransformStart ==
    /\ "A" \in held
    /\ \E b \in {stringTransformStart(steps_A, currentValue_A, negate_A)} :
          /\ invoked' = b.invoked
          /\ handled' = b.handled
          /\ steps_A' = b.steps
          /\ marks_A' = SubSeq(marks_A, 1, Len(b.steps))
          /\ negate_A' = b.flag
          /\ IF b.threw
             THEN /\ ret' = RetThrow(b.err)
                  /\ UNCHANGED <<steps_T, currentValue_T, held>>
             ELSE /\ ret' = RetApi
                  /\ steps_T' = b.next.steps
                  /\ currentValue_T' = b.next.currentValue
                  /\ held' = held \cup {"T"}
    /\ call' = Call("stringTransformStart", FALSE)
    /\ UNCHANGED <<currentValue_A, pending_A>>
    /\ UNCHANGED <<conts, frame>>

\* the object a continuation builder returns: the builder and its argument
Cont(of, splitter, idx) == [of |-> of, splitter |-> splitter, idx |-> idx]

\* split(splitter) on the transformation api: no step is added
Split(splitter) ==
    /\ "T" \in held
    /\ conts' = conts \cup {Cont("split", splitter, 0)}
    /\ call' = Call("split", FALSE)
    /\ ret' = RetCont
    /\ invoked' = <<>>
    /\ handled' = <<>>
    /\ UNCHANGED <<steps_T, currentValue_T, steps_A, negate_A, currentValue_A,
                   held, frame, marks_A, pending_A>>

\* takeThatAt(index) on an object split() returned
TakeThatAt(c, index) ==
    /\ c \in conts
    /\ c.of = "split"
    /\ AddStep_T(Step("takeThatAt",
                      Fn("takeThatAt", [splitter |-> c.splitter, index |-> index])))

\* join(sep) on an object split() returned
Join(c, sep) ==
    /\ c \in conts
    /\ c.of = "split"
    /\ AddStep_T(Step("join", Fn("join", [splitter |-> c.splitter, sep |-> sep])))

\* whereValueAt(idx) on the assertion api: no step is added
WhereValueAt(idx) ==
    /\ "A" \in held
    /\ conts' = conts \cup {Cont("whereValueAt", <<>>, idx)}
    /\ call' = Call("whereValueAt", FALSE)
    /\ ret' = RetCont
    /\ invoked' = <<>>
    /\ handled' = <<>>
    /\ UNCHANGED <<steps_T, currentValue_T, steps_A, negate_A, currentValue_A,
                   held, frame, marks_A, pending_A>>

\* is(val) on an object whereValueAt() returned
WhereValueAtIs(c, val) ==
    /\ c \in conts
    /\ c.of = "whereValueAt"
    /\ AddStep_A(Step("whereValueAt(" \o ToString(c.idx) \o ").is",
                      Fn("whereValueAt.is", [idx |-> c.idx, val |-> val])))

\* wordCount() on the assertion api: no step is added
WordCount ==
    /\ "A" \in held
    /\ conts' = conts \cup {Cont("wordCount", <<>>, 0)}
    /\ call' = Call("wordCount", FALSE)
    /\ ret' = RetCont
    /\ invoked' = <<>>
    /\ handled' = <<>>
    /\ UNCHANGED <<steps_T, currentValue_T, steps_A, negate_A, currentValue_A,
                   held, frame, marks_A, pending_A>>

\* is(n) on an object wordCount() returned
WordCountIs(c, n) ==
    /\ c \in conts
    /\ c.of = "wordCount"
    /\ AddStep_A(Step("wordCount.is", Fn("wordCount.is", [n |-> n])))

\* The steps of the two catalogs used when both modes are explored together.
Core_T == { st \in Choices_T : st.fn.op \in {"toUpperCase", "extract"} }
Core_A == { st \in Choices_A : st.fn # Fn("has", <<"a">>) }

Room == Len(steps_T) + Len(steps_A) < MaxSteps

\* Both modes, every call in any order.
Next ==
    \/ \E s \in Subjects : StringTransform(s)
    \/ \E step \in Core_T : Room /\ AddStep_T(step)
    \/ \E handler \in BOOLEAN : Try_T(handler)
    \/ AssertThatStart
    \/ \E s \in Subjects : AssertThat(s)
    \/ IsNot
    \/ \E step \in Core_A : Room /\ AddStep_A(step)
    \/ \E handler \in BOOLEAN : Try_A(handler)
    \/ StringTransformStart

Spec == Init /\ [][Next]_vars

\* The calls made through the transformation api alone.
NextT ==
    \/ \E s \in Subjects : StringTransform(s)
    \/ \E step \in Choices_T : Len(steps_T) < MaxChain_T /\ AddStep_T(step)
    \/ \E handler \in BOOLEAN : Try_T(handler)
    \/ AssertThatStart

SpecT == Init /\ [][NextT]_vars

\* The calls made through the assertion api alone.
NextA ==
    \/ \E s \in Subjects : AssertThat(s)
    \/ IsNot
    \/ \E step \in Choices_A : Len(steps_A) < MaxChain_A /\ AddStep_A(step)
    \/ \E handler \in BOOLEAN : Try_A(handler)
    \/ StringTransformStart

SpecA == Init /\ [][NextA]_vars

\* The steps made from a function of the caller: one that returns a value of
\* the right type, one that throws an Error, one that returns a number and
\* one that throws a string.
Custom_T ==
    { Step("customTransform", Fn("customTransform", <<cb>>)) :
        cb \in {"upper", "throw", "number", "oops"} }
Custom_A ==
    { Step("customCheck", Fn("customCheck", <<cb>>)) :
        cb \in {"isLower", "throw", "number", "oops"} }

\* The strings of at most n characters of alphabet.
Strings(alphabet, n) == UNION { [1..k -> alphabet] : k \in 0..n }

\* Subjects with a metacharacter and the backslash, and the two steps of the
\* escape round trip.
Subjects_E == Strings({"a", ".", "\\"}, MaxLen_E)

Choices_E ==
    { Step("escapeString", Fn("escapeString", <<>>)),
      Step("unEscapeString", Fn("unEscapeString", <<>>)) }

\* Chains of escapeString and unEscapeString.
NextE ==
    \/ \E s \in Subjects_E : StringTransform(s)
    \/ \E step \in Choices_E : Len(steps_T) < MaxChain_E /\ AddStep_T(step)
    \/ \E handler \in BOOLEAN : Try_T(handler)

SpecE == Init /\ [][NextE]_vars

\* Subjects for the catalog operations taken one at a time: the short
\* strings, and longer ones for the hash.
Subjects_P ==
    Strings({"a", "."}, MaxLen_P)
    \cup { [i \in 1..Len_H |-> IF i = k THEN "a" ELSE "."] : k \in 1..Len_H }

Choices_P ==
    { Step("pad", Fn("pad", [len |-> len, char |-> <<"-">>, where |-> where])) :
        len \in {2, 5}, where \in {"start", "end", "both"} }
    \cup { Step("toHash", Fn("toHash", <<>>)) }
    \cup { Step("takeThatAt", Fn("takeThatAt", [splitter |-> <<".">>, index |-> index])) :
             index \in {-1, 0, 2} }
    \cup { Step("getCharacterAt", Fn("getCharacterAt", [index |-> index])) :
             index \in {-1, 0, 2} }
    \cup { Step("extractWhenBetween",
                Fn("extractWhenBetween", [prefix |-> ps[1], suffix |-> ps[2]])) :
             ps \in { <<<<"a">>, <<".">>>>, <<<<".">>, <<"a">>>>, <<<<"a">>, <<"a">>>> } }

\* Chains of catalog transformations on those subjects.
NextP ==
    \/ \E s \in Subjects_P : StringTransform(s)
    \/ \E step \in Choices_P : Len(steps_T) < MaxChain_P /\ AddStep_T(step)
    \/ \E handler \in BOOLEAN : Try_T(handler)

SpecP == Init /\ [][NextP]_vars

\* try(handler) begins: let value = currentValue, and the iteration of steps
TryBegin(handler) ==
    /\ "T" \in held
    /\ frame.pc = "idle"
    /\ frame' = [Idle EXCEPT !.pc = "run", !.handler = handler, !.k = 1,
                             !.value = currentValue_T]
    /\ call' = Call("try_T", handler)
    /\ ret' = RetRunning
    /\ invoked' = <<>>
    /\ handled' = <<>>
    /\ UNCHANGED <<steps_T, currentValue_T, steps_A, negate_A, currentValue_A,
                   held, conts, marks_A, pending_A>>

LoopOps == {"chunk", "breakToLines"}

\* one pass of tryFn's loop for a step without a loop of its own:
\* value = evaluateStep(fn, value), or the catch and the return of
\* handleStepError
RunStep ==
    /\ frame.pc = "run"
    /\ frame.k <= Len(steps_T)
    /\ steps_T[frame.k].fn.op \notin LoopOps
    /\ \E r \in {evaluateStep_T(steps_T[frame.k].fn, frame.value)} :
       \E log2 \in {Append(frame.log,
                            Invocation(steps_T[frame.k].name, frame.value, FALSE,
                                       IF r.ok THEN "ok" ELSE "raise"))} :
          IF r.ok
          THEN /\ frame' = [frame EXCEPT !.k = frame.k + 1, !.value = r.val,
                                         !.log = log2]
               /\ UNCHANGED <<ret, invoked, handled>>
          ELSE \E h \in {handleStepError_T(r.err, frame.handler,
                                           steps_T[frame.k].name, frame.value)} :
                  /\ frame' = Idle
                  /\ ret' = h.ret
                  /\ invoked' = log2
                  /\ handled' = h.handled
    /\ \E st \in {stateAfter_T(steps_T[frame.k].fn, frame.value,
                                [steps |-> steps_T, currentValue |-> currentValue_T])} :
          /\ steps_T' = st.steps
          /\ currentValue_T' = st.currentValue
    /\ UNCHANGED <<steps_A, negate_A, currentValue_A,
                   held, conts, marks_A, pending_A, call>>

\* the step function of chunk or breakToLines is entered: const chunks = [],
\* let out = "", let i = 0
EnterLoop ==
    /\ frame.pc = "run"
    /\ frame.k <= Len(steps_T)
    /\ steps_T[frame.k].fn.op \in LoopOps
    /\ frame' = [frame EXCEPT !.pc = "loop", !.i = 0, !.chunks = <<>>,
                              !.out = <<>>, !.iter = 0]
    /\ UNCHANGED <<steps_T, currentValue_T, steps_A, negate_A, currentValue_A,
                   held, conts, marks_A, pending_A, call, ret, invoked, handled>>

\* the condition of the for loop of chunk or breakToLines is tested and
\* holds: i < arr.length, i < v.length
LoopTest ==
    /\ frame.pc = "loop"
    /\ frame.i < Len(frame.value)
    /\ frame' = [frame EXCEPT !.pc = "body"]
    /\ UNCHANGED <<steps_T, currentValue_T, steps_A, negate_A, currentValue_A,
                   held, conts, marks_A, pending_A, call, ret, invoked, handled>>

\* the body of the for loop runs, then i += size.  The model records the
\* first MaxIter iterations of a loop.  With size <= 0 the index does not
\* grow, so the condition holds at every later test as well: those later
\* iterations are taken without recording what they add.
LoopBody ==
    /\ frame.pc = "body"
    /\ LET fn == steps_T[frame.k].fn
           v == frame.value
           i == frame.i
           size == IF fn.op = "chunk" THEN fn.arg.size ELSE fn.arg.n
       IN IF frame.iter < MaxIter
          THEN IF fn.op = "chunk"
               THEN frame' = [frame EXCEPT
                       !.pc = "loop",
                       !.chunks = Append(frame.chunks,
                           joinWith(arraySlice(split(v, <<>>), i, i + size), <<>>)),
                       !.i = i + size,
                       !.iter = frame.iter + 1]
               ELSE frame' = [frame EXCEPT
                       !.pc = "loop",
                       !.out = frame.out \o substring(v, i, i + size)
                                 \o (IF i + size < Len(v) THEN <<"\n">> ELSE <<>>),
                       !.i = i + size,
                       !.iter = frame.iter + 1]
          ELSE /\ size <= 0
               /\ frame' = [frame EXCEPT !.pc = "loop"]
    /\ UNCHANGED <<steps_T, currentValue_T, steps_A, negate_A, currentValue_A,
                   held, conts, marks_A, pending_A, call, ret, invoked, handled>>

\* the for loop ends, the condition i < length being false: the step
\* function returns chunks.join(sep) or out, which becomes the value
LoopExit ==
    /\ frame.pc = "loop"
    /\ frame.i >= Len(frame.value)
    /\ LET fn == steps_T[frame.k].fn
       IN frame' = [frame EXCEPT
              !.pc = "run",
              !.k = frame.k + 1,
              !.value = IF fn.op = "chunk"
                        THEN joinWith(frame.chunks, fn.arg.sep)
                        ELSE frame.out,
              !.log = Append(frame.log,
                             Invocation(steps_T[frame.k].name, frame.value, FALSE, "ok")),
              !.i = 0, !.chunks = <<>>, !.out = <<>>, !.iter = 0]
    /\ UNCHANGED <<steps_T, currentValue_T, steps_A, negate_A, currentValue_A,
                   held, conts, marks_A, pending_A, call, ret, invoked, handled>>

\* the iteration of steps is over: return value
TryReturn ==
    /\ frame.pc = "run"
    /\ frame.k > Len(steps_T)
    /\ frame' = Idle
    /\ ret' = RetString(frame.value)
    /\ invoked' = frame.log
    /\ UNCHANGED <<steps_T, currentValue_T, steps_A, negate_A, currentValue_A,
                   held, conts, marks_A, pending_A, call, handled>>

\* the steps a running try() takes
TryRun == RunStep \/ EnterLoop \/ LoopTest \/ LoopBody \/ LoopExit \/ TryReturn

Choices_L ==
    { Step("chunk", Fn("chunk", [size |-> size, sep |-> <<"|">>])) : size \in {-1, 0, 2} }
    \cup { Step("breakToLines", Fn("breakToLines", [n |-> n])) : n \in {-1, 0, 1} }
    \cup { Step("toUpperCase", Fn("toUpperCase", <<>>)),
           Step("extract", Fn("extract", <<"a">>)) }

\* The transformation api with try() taken step by step; the caller makes a
\* call only when no call is running.
NextL ==
    \/ \E s \in Subjects : frame.pc = "idle" /\ StringTransform(s)
    \/ \E step \in Choices_L :
          frame.pc = "idle" /\ Len(steps_T) < MaxChain_L /\ AddStep_T(step)
    \/ \E handler \in BOOLEAN : TryBegin(handler)
    \/ RunStep
    \/ EnterLoop
    \/ LoopTest
    \/ LoopBody
    \/ LoopExit
    \/ TryReturn

\* A call that was begun keeps running: the engine runs it to its end
\* before the caller does anything else.
SpecL == Init /\ [][NextL]_vars /\ WF_vars(TryRun)

\* The steps of the chains whose callbacks start a chain of their own.
Choices_N ==
    { Step("customTransform", Fn("customTransform", <<cb>>)) :
        cb \in Nested \cup {"lower"} }
    \cup { Step("getCharacterAt", Fn("getCharacterAt", [index |-> 0])) }

\* The transformation api, with callbacks that use the api themselves.
NextN ==
    \/ \E s \in Subjects : StringTransform(s)
    \/ \E step \in Choices_N : Len(steps_T) < MaxChain_N /\ AddStep_T(step)
    \/ \E handler \in BOOLEAN : Try_T(handler)

SpecN == Init /\ [][NextN]_vars

\* Both modes, with the continuation builders and one catalog step of each
\* mode.
NextK ==
    \/ \E s \in Subjects : StringTransform(s)
    \/ Room /\ AddStep_T(Step("toUpperCase", Fn("toUpperCase", <<>>)))
    \/ Split(<<"b">>)
    \/ \E c \in conts, index \in {0, 1} : Room /\ TakeThatAt(c, index)
    \/ \E c \in conts : Room /\ Join(c, <<"-">>)
    \/ \E handler \in BOOLEAN : Try_T(handler)
    \/ AssertThatStart
    \/ \E s \in Subjects : AssertThat(s)
    \/ IsNot
    \/ Room /\ AddStep_A(Step("has", Fn("has", <<"b">>)))
    \/ WhereValueAt(1)
    \/ \E c \in conts : Room /\ WhereValueAtIs(c, <<"b">>)
    \/ WordCount
    \/ \E c \in conts, n \in {1, 2} : Room /\ WordCountIs(c, n)
    \/ \E handler \in BOOLEAN : Try_A(handler)
    \/ StringTransformStart

SpecK == Init /\ [][NextK]_vars

\* Both modes, with chains of customTransform and customCheck steps.
NextC ==
    \/ \E s \in Subjects : StringTransform(s)
    \/ \E step \in Custom_T : Room /\ AddStep_T(step)
    \/ \E handler \in BOOLEAN : Try_T(handler)
    \/ AssertThatStart
    \/ \E s \in Subjects : AssertThat(s)
    \/ IsNot
    \/ \E step \in Custom_A : Room /\ AddStep_A(step)
    \/ \E handler \in BOOLEAN : Try_A(handler)
    \/ StringTransformStart

SpecC == Init /\ [][NextC]_vars

-----------------------------------------------------------------------------
(* Reference definitions used to state the properties *)

Front(seq) == SubSeq(seq, 1, Len(seq) - 1)

\* fn(...f2(f1(s))...): the steps composed from the first added to the last,
\* defined on the last step; a raise of a step is the outcome of the whole
RECURSIVE Fold_T(_, _)
Fold_T(steps, s) ==
    IF steps = <<>>
    THEN Ok(s)
    ELSE LET before == Fold_T(Front(steps), s)
         IN IF before.ok
            THEN evaluateStep_T(steps[Len(steps)].fn, before.val)
            ELSE before

\* the first step that raises when the chain is folded over s, 0 when none does
FirstRaise_T(steps, s) ==
    IF Fold_T(steps, s).ok
    THEN 0
    ELSE CHOOSE k \in 1..Len(steps) :
            /\ ~Fold_T(SubSeq(steps, 1, k), s).ok
            /\ Fold_T(SubSeq(steps, 1, k - 1), s).ok

\* the message of the Error the handler is given for the thrown value e
MessageOf(e) == IF e.isError THEN e.message ELSE StringOf(e)

Names(seq) == [i \in 1..Len(seq) |-> seq[i].name]

LastInvoked == invoked[Len(invoked)]

\* the call made last raised in a step: its last invocation ended in a raise
StepRaised == invoked # <<>> /\ LastInvoked.res = "raise"

-----------------------------------------------------------------------------
(* C1: when no step of a transformation chain raises, try() returns the    *)
(* steps folded over the subject from the first added to the last, each    *)
(* step invoked once in that order on the value the steps before it        *)
(* produced; with zero steps it returns the subject unchanged.             *)
C1_LeftFold ==
    (call.name = "try_T" /\ Fold_T(steps_T, currentValue_T).ok) =>
        /\ ret = RetString(Fold_T(steps_T, currentValue_T).val)
        /\ Names(invoked) = Names(steps_T)
        /\ \A i \in 1..Len(invoked) :
              invoked[i].input = Fold_T(SubSeq(steps_T, 1, i - 1), currentValue_T).val
        /\ (steps_T = <<>> => ret = RetString(currentValue_T))

\* a chain of two different steps whose order matters was evaluated
C1_Witness ==
    /\ call.name = "try_T"
    /\ Len(steps_T) = 2
    /\ steps_T[1].name = "extract"
    /\ steps_T[2].name = "toUpperCase"
    /\ ret = RetString(<<"A">>)
    /\ currentValue_T = <<"a", "b">>

(* C2: in an assertion chain in which no step raises, every step evaluated *)
(* is given the chain's subject, and try() returns true exactly when every *)
(* step was evaluated with a (possibly negated) result of true; with zero  *)
(* steps it returns true.                                                  *)
C2_Conjunction ==
    (/\ call.name = "try_A"
     /\ \A i \in 1..Len(steps_A) : predicate_A(steps_A[i].fn, currentValue_A).ok) =>
        /\ ret.kind = "boolean"
        /\ Names(invoked) = Names(SubSeq(steps_A, 1, Len(invoked)))
        /\ \A k \in 1..Len(invoked) :
              /\ invoked[k].input = currentValue_A
              /\ (invoked[k].res = "true") <=>
                    (predicate_A(steps_A[k].fn, currentValue_A).bool # invoked[k].negated)
        /\ ret.bool <=> (/\ Len(invoked) = Len(steps_A)
                         /\ \A k \in 1..Len(invoked) : invoked[k].res = "true")
        /\ (steps_A = <<>> => ret = RetBool(TRUE))

\* two steps, none negated, both true on the subject
C2_Witness ==
    /\ call.name = "try_A"
    /\ Len(steps_A) = 2
    /\ steps_A[1] # steps_A[2]
    /\ Len(invoked) = 2
    /\ ~invoked[1].negated /\ ~invoked[2].negated
    /\ ret = RetBool(TRUE)

(* C3: the only step whose result try() flips is the step added            *)
(* immediately after an isNot() call: a step is evaluated negated exactly  *)
(* when isNot() was called right before it was added.                      *)
C3_NegationScope ==
    call.name = "try_A" =>
        \A k \in 1..Len(invoked) : invoked[k].negated = marks_A[k]

(* C4: no step operation is invoked by an entry call or by a call that     *)
(* adds a step (or by isNot()): operations are invoked only by try() and   *)
(* by the two bridge calls.                                                *)
C4_Lazy ==
    /\ invoked # <<>> =>
          call.name \in {"try_T", "try_A", "assertThatStart", "stringTransformStart"}
    /\ call.name \in {"stringTransform", "assertThat", "addStep_T", "addStep_A", "isNot"} =>
          invoked = <<>> /\ handled = <<>>

\* a customCheck step was just added to a chain and nothing was invoked
C4_Witness ==
    /\ call.name = "addStep_A"
    /\ steps_A # <<>>
    /\ steps_A[Len(steps_A)].name = "customCheck"
    /\ steps_T # <<>>
    /\ invoked = <<>>

(* C5: in an assertion chain, as soon as a step's (possibly negated)       *)
(* result is false try() returns false: that step is the last one invoked  *)
(* and the handler passed to try is not called.                            *)
C5_ShortCircuit ==
    (call.name = "try_A" /\ \E k \in 1..Len(invoked) : invoked[k].res = "false") =>
        /\ ret = RetBool(FALSE)
        /\ LastInvoked.res = "false"
        /\ \A k \in 1..(Len(invoked) - 1) : invoked[k].res = "true"
        /\ handled = <<>>

\* a false step followed by a step that would raise, with a handler passed
C5_Witness ==
    /\ call = Call("try_A", TRUE)
    /\ Len(steps_A) = 2
    /\ Len(invoked) = 1
    /\ ~predicate_A(steps_A[2].fn, currentValue_A).ok
    /\ ret = RetBool(FALSE)
    /\ handled = <<>>

(* C6: when step k of a transformation chain raises and a handler was     *)
(* passed to try, the handler is called exactly once with an Error, the    *)
(* name of step k and the value steps 1..k-1 produced from the subject; no *)
(* step after k is invoked and try returns null.                           *)
C6_HandledRaise_T ==
    LET k == FirstRaise_T(steps_T, currentValue_T)
    IN (call = Call("try_T", TRUE) /\ k > 0) =>
          /\ Len(handled) = 1
          /\ handled[1].error.isError
          /\ handled[1].step = steps_T[k].name
          /\ handled[1].valueSoFar =
                Fold_T(SubSeq(steps_T, 1, k - 1), currentValue_T).val
          /\ Len(invoked) = k
          /\ ret = RetNull

\* the second of three steps raised on a value the first step had changed
C6_Witness ==
    /\ call = Call("try_T", TRUE)
    /\ Len(steps_T) = 3
    /\ FirstRaise_T(steps_T, currentValue_T) = 2
    /\ Len(handled) = 1
    /\ handled[1].valueSoFar # currentValue_T
    /\ ret = RetNull

(* C7: when a step of an assertion chain raises and a handler was passed   *)
(* to try, the handler is called exactly once with an Error, the name of   *)
(* the raising step and the chain's subject, no later step is invoked and  *)
(* try returns null; try returns null in no other case.                    *)
C7_HandledRaise_A ==
    call.name = "try_A" =>
        /\ \A k \in 1..Len(invoked) :
              /\ (invoked[k].res = "raise") <=>
                    ~predicate_A(steps_A[k].fn, currentValue_A).ok
              /\ invoked[k].res = "raise" => k = Len(invoked)
        /\ (call.handler /\ StepRaised) =>
              /\ Len(handled) = 1
              /\ handled[1].error.isError
              /\ handled[1].step = steps_A[Len(invoked)].name
              /\ handled[1].valueSoFar = currentValue_A
              /\ ret = RetNull
        /\ ret.kind = "null" => (call.handler /\ StepRaised)

\* the first of two steps raised a value that is not an Error
C7_Witness ==
    /\ call = Call("try_A", TRUE)
    /\ Len(steps_A) = 2
    /\ Len(invoked) = 1
    /\ ~predicate_A(steps_A[1].fn, currentValue_A).err.isError
    /\ Len(handled) = 1
    /\ handled[1].error.isError
    /\ ret = RetNull

(* C8: when a step raises and try was called without a handler, in either *)
(* mode, try throws the very value the step operation raised, calls no     *)
(* handler and invokes no later step.                                      *)
C8_Propagate ==
    /\ LET k == FirstRaise_T(steps_T, currentValue_T)
       IN (call = Call("try_T", FALSE) /\ k > 0) =>
             /\ ret = RetThrow(Fold_T(SubSeq(steps_T, 1, k), currentValue_T).err)
             /\ Len(invoked) = k
             /\ handled = <<>>
    /\ (call = Call("try_A", FALSE) /\ \E k \in 1..Len(invoked) : invoked[k].res = "raise") =>
             /\ LastInvoked.res = "raise"
             /\ \A k \in 1..(Len(invoked) - 1) : invoked[k].res # "raise"
             /\ ret = RetThrow(predicate_A(steps_A[Len(invoked)].fn, currentValue_A).err)
             /\ handled = <<>>

\* the first of two transformation steps raised and its Error was thrown
C8_Witness ==
    /\ call = Call("try_T", FALSE)
    /\ Len(steps_T) = 2
    /\ Len(invoked) = 1
    /\ ret = RetThrow(NewError("extract", <<"No match found">>))

\* The assertion chains P1..Pn of steps that do not raise, added to steps.
PureChains_A ==
    UNION { [1..n -> { st \in Choices_A : st.fn.op = "has" }] : n \in 0..MaxSteps }

(* C9: when every step of a transformation chain succeeds, assertThat() on *)
(* it starts an assertion chain with zero steps, a cleared negation flag   *)
(* and, as subject, the value try() would have returned; try() on          *)
(* assertion steps P1..Pn added to it returns the conjunction of the Pi    *)
(* evaluated on that value.                                                *)
C9_BridgeToAssertion ==
    LET v == Fold_T(steps_T, currentValue_T)
    IN (call.name = "assertThatStart" /\ v.ok) =>
          /\ ret = RetApi
          /\ steps_A = <<>>
          /\ ~negate_A
          /\ currentValue_A = v.val
          /\ currentValue_A = tryFn_T(steps_T, currentValue_T, FALSE).ret.str
          /\ \A ps \in PureChains_A :
                tryFn_A(steps_A \o ps, currentValue_A, negate_A, FALSE).ret
                    = RetBool(\A i \in 1..Len(ps) : has(ps[i].fn.arg, v.val).bool)

\* the bridge was crossed with a value the steps had changed
C9_Witness ==
    /\ call.name = "assertThatStart"
    /\ ret = RetApi
    /\ steps_T # <<>>
    /\ currentValue_A # currentValue_T
    /\ currentValue_A = <<"a">>

\* the message of the error a failed assertThat() bridge throws names the
\* failing step, the underlying message and the value before the failing step
C10_Message ==
    LET k == FirstRaise_T(steps_T, currentValue_T)
    IN (call.name = "assertThatStart" /\ k > 0) =>
          /\ ret.kind = "throw"
          /\ ret.err.isError
          /\ includes(ret.err.message, <<steps_T[k].name>>)
          /\ includes(ret.err.message,
                      MessageOf(Fold_T(SubSeq(steps_T, 1, k), currentValue_T).err))
          /\ includes(ret.err.message,
                      Fold_T(SubSeq(steps_T, 1, k - 1), currentValue_T).val)

\* a bridge call that throws leaves the assertion chain's state as it was
C10_Frame ==
    (call'.name = "assertThatStart" /\ ret'.kind = "throw") => UNCHANGED state_A

(* C10: when a step of a transformation chain raises, assertThat() on the  *)
(* chain throws an error whose message contains the failing step's name,   *)
(* the underlying error's message and the value before the failing step,   *)
(* and the assertion-mode subject, steps and flag are left as they were.   *)
C10_BridgeFailure == [](C10_Message) /\ [][C10_Frame]_vars

\* the bridge threw for a failing step while an assertion chain with a step
\* and a set flag existed
C10_Witness ==
    /\ call.name = "assertThatStart"
    /\ ret.kind = "throw"
    /\ FirstRaise_T(steps_T, currentValue_T) = 1
    /\ includes(ret.err.message, currentValue_T)
    /\ steps_A # <<>>
    /\ negate_A

\* what try() without a handler returns for the outcome o of a fold
RetOf(o) == IF o.ok THEN RetString(o.val) ELSE RetThrow(o.err)

\* The transformation chains B1..Bn a caller can add after a bridge.
Chains_T == UNION { [1..n -> Choices_T] : n \in 0..MaxSteps }

\* a stringTransform() bridge call made on an assertion chain that
\* evaluates to true
C11_Step ==
    (/\ call'.name = "stringTransformStart"
     /\ tryFn_A(steps_A, currentValue_A, negate_A, FALSE).ret = RetBool(TRUE)) =>
        /\ ret' = RetApi
        /\ "T" \in held'
        /\ steps_T' = <<>>
        /\ currentValue_T' = currentValue_A
        /\ currentValue_A' = currentValue_A
        /\ \A bs \in Chains_T :
              tryFn_T(steps_T' \o bs, currentValue_T', FALSE).ret
                  = RetOf(Fold_T(bs, currentValue_A))

(* C11: when an assertion chain on subject s evaluates to true,            *)
(* stringTransform() on it starts a transformation chain with zero steps   *)
(* whose subject is s itself, so that try() after adding steps B1..Bn      *)
(* returns B1..Bn folded over s.                                           *)
C11_BridgeToTransform == [][C11_Step]_vars

\* the bridge was crossed after a step was evaluated to true on a subject of
\* two characters
C11_Witness ==
    /\ call.name = "stringTransformStart"
    /\ ret = RetApi
    /\ Len(invoked) = 1
    /\ invoked[1].res = "true"
    /\ steps_T = <<>>
    /\ currentValue_T = <<"a", "b">>
    /\ currentValue_A = <<"a", "b">>

\* a stringTransform() bridge call made on an assertion chain that
\* evaluates to false or in which a step raises
C12_Step ==
    (/\ call'.name = "stringTransformStart"
     /\ tryFn_A(steps_A, currentValue_A, negate_A, FALSE).ret # RetBool(TRUE)) =>
        /\ ret'.kind = "throw"
        /\ ret'.err.isError
        /\ UNCHANGED state_T
        /\ held' = held
        /\ invoked' = tryFn_A(steps_A, currentValue_A, negate_A, FALSE).invoked

(* C12: when an assertion chain evaluates to false or one of its steps     *)
(* raises, stringTransform() on it throws: the transformation-mode subject *)
(* and steps are left as they were, no transformation api is handed out    *)
(* and the only operations invoked are the assertion steps evaluated.      *)
C12_BridgeRaises == [][C12_Step]_vars

\* the bridge threw on a false assertion while a transformation chain with
\* a step existed
C12_Witness ==
    /\ call.name = "stringTransformStart"
    /\ ret.kind = "throw"
    /\ Len(invoked) = 1
    /\ invoked[1].res = "false"
    /\ steps_T # <<>>
    /\ currentValue_T # currentValue_A

\* a stringTransform() bridge call that throws
C13_Step ==
    (call'.name = "stringTransformStart" /\ ret'.kind = "throw") =>
        /\ ret'.err.isError
        /\ includes(ret'.err.message, <<steps_A[Len(invoked')].name>>)
        /\ includes(ret'.err.message, currentValue_A)

(* C13: the error a failed stringTransform() bridge throws has in its      *)
(* message the name of the step that failed, which is the last step        *)
(* invoked (its predicate was false or raised), and the value the step was *)
(* given.                                                                  *)
C13_BridgeErrorInfo == [][C13_Step]_vars

\* the first bridge of the expression: assertThat() on a transformation
\* chain A over s whose steps all succeed
C14_First ==
    LET a == Fold_T(steps_T, currentValue_T)
    IN (call'.name = "assertThatStart" /\ a.ok) =>
          /\ Names(invoked') = Names(steps_T)
          /\ \A i \in 1..Len(invoked') : invoked'[i].res = "ok"
          /\ currentValue_A' = a.val
          /\ steps_A' = <<>>
          /\ UNCHANGED state_T

\* the second bridge: stringTransform() on assertions P true on A(s), while
\* the transformation module still holds A and s, and then B().try()
C14_Second ==
    LET a == Fold_T(steps_T, currentValue_T)
    IN (/\ call'.name = "stringTransformStart"
        /\ a.ok
        /\ currentValue_A = a.val
        /\ tryFn_A(steps_A, currentValue_A, negate_A, FALSE).ret = RetBool(TRUE)) =>
          /\ ret' = RetApi
          /\ Names(invoked') = Names(steps_A)
          /\ \A i \in 1..Len(invoked') : invoked'[i].input = a.val
          /\ steps_T' = <<>>
          /\ currentValue_T' = a.val
          /\ \A bs \in Chains_T :
                LET t == tryFn_T(steps_T' \o bs, currentValue_T', FALSE)
                IN /\ t.ret = RetOf(Fold_T(bs, a.val))
                   /\ Names(t.invoked) = Names(SubSeq(bs, 1, Len(t.invoked)))
                   /\ Fold_T(bs, a.val).ok => Len(t.invoked) = Len(bs)

(* C14: in stringTransform(s).A().assertThat().P().stringTransform().B()   *)
(* .try() with P true on A(s), the first bridge invokes the steps of A     *)
(* once each and seeds the assertions with A(s), the second bridge invokes *)
(* the steps of P once each and starts an empty chain on A(s), and the     *)
(* final try() invokes only the steps of B and returns B(A(s)).            *)
C14_DoubleBridge == [][C14_First /\ C14_Second]_vars

\* the second bridge was crossed with a subject that only a transformation
\* step can have produced
C14_Witness ==
    /\ call.name = "stringTransformStart"
    /\ ret = RetApi
    /\ Len(invoked) = 1
    /\ steps_T = <<>>
    /\ currentValue_T = <<"A", "B">>

(* C15: a chain base.X() evaluated by try() leaves base as it was: try()   *)
(* through base then returns the steps of base alone folded over the       *)
(* subject, and base.Y().try() the steps of base followed by Y only.  The  *)
(* state after base.X().try() is any state in which try() has evaluated a  *)
(* chain with a last step X.                                               *)
C15_BranchIsolation ==
    (call.name = "try_T" /\ steps_T # <<>>) =>
        LET base == Front(steps_T)
        IN /\ tryFn_T(steps_T, currentValue_T, FALSE).ret
                 = RetOf(Fold_T(base, currentValue_T))
           /\ \A y \in Choices_T :
                 tryFn_T(addStep_T(steps_T, y.name, y.fn), currentValue_T, FALSE).ret
                     = RetOf(Fold_T(Append(base, y), currentValue_T))

\* try() leaves the transformation module's subject and steps as they were
C16_Frame == call'.name = "try_T" => UNCHANGED state_T

\* after try(), try() on the chain with one more step returns the fold of
\* the old steps and then the new one over the subject
C16_Again ==
    call.name = "try_T" =>
        \A y \in Choices_T :
            tryFn_T(addStep_T(steps_T, y.name, y.fn), currentValue_T, FALSE).ret
                = RetOf(Fold_T(Append(steps_T, y), currentValue_T))

(* C16: try() does not consume a transformation chain: whether it returns  *)
(* a value or null after a handled error, the subject and the recorded     *)
(* steps are unchanged, and try() after appending a step returns the fold  *)
(* of all the steps, old then new, over the subject.                       *)
C16_NotConsumed == [](C16_Again) /\ [][C16_Frame]_vars

\* try() returned null after a handled error and the chain is still there
C16_Witness ==
    /\ call = Call("try_T", TRUE)
    /\ ret = RetNull
    /\ Len(handled) = 1
    /\ Len(steps_T) = 2

\* a try() call that follows a try() call made the same way
C17_Step ==
    (call.name \in {"try_T", "try_A"} /\ call' = call) => ret' = ret

(* C17: two consecutive try() calls on the same chain, with no other call  *)
(* in between, return the same result, for transformation chains and for   *)
(* assertion chains, with or without isNot().                              *)
C17_Repeatable == [][C17_Step]_vars

(* C18: after stringTransform(x) the transformation step list is empty and *)
(* the subject is x; after assertThat(x) the assertion step list is empty, *)
(* the negation flag is false and the subject is x, whatever the module    *)
(* held before; try() through the api then evaluates x with no steps.      *)
C18_EntryResets ==
    /\ call.name = "stringTransform" =>
          /\ steps_T = <<>>
          /\ currentValue_T = call.arg
          /\ tryFn_T(steps_T, currentValue_T, FALSE)
                = [ret |-> RetString(call.arg), invoked |-> <<>>, handled |-> <<>>,
                   st |-> [steps |-> <<>>, currentValue |-> call.arg]]
    /\ call.name = "assertThat" =>
          /\ steps_A = <<>>
          /\ ~negate_A
          /\ currentValue_A = call.arg
          /\ tryFn_A(steps_A, currentValue_A, negate_A, FALSE).ret = RetBool(TRUE)
          /\ tryFn_A(steps_A, currentValue_A, negate_A, FALSE).invoked = <<>>
          /\ \A ps \in PureChains_A :
                tryFn_A(steps_A \o ps, currentValue_A, negate_A, FALSE).ret
                    = RetBool(\A i \in 1..Len(ps) : has(ps[i].fn.arg, call.arg).bool)

\* assertThat(x) was called while the module held a chain with a step
C18_Witness ==
    /\ call.name = "assertThat"
    /\ call.before > 0
    /\ steps_A = <<>>
    /\ currentValue_A = <<"a">>

\* an isNot() call, and what try() and the bridge do before and after it
C19_Step ==
    call'.name = "isNot" =>
        /\ \A h \in BOOLEAN :
              tryFn_A(steps_A', currentValue_A', negate_A', h).ret
                  = tryFn_A(steps_A, currentValue_A, negate_A, h).ret
        /\ stringTransformStart(steps_A', currentValue_A', negate_A').threw
              = stringTransformStart(steps_A, currentValue_A, negate_A).threw

(* C19: an isNot() call after which no step is added has no effect: try()  *)
(* and the stringTransform() bridge give, right after it, the result they  *)
(* give on the same chain right before it.                                 *)
C19_TrailingIsNot == [][C19_Step]_vars

\* try() on a transformation chain with customTransform steps
C20_T ==
    call.name = "try_T" =>
        /\ \A k \in 1..Len(invoked) :
              steps_T[k].fn.op = "customTransform" =>
                 LET cb == userFn(steps_T[k].fn.arg[1], invoked[k].input)
                 IN /\ (invoked[k].res = "raise") <=> (cb.kind # "string")
                    /\ invoked[k].res = "raise" => k = Len(invoked)
                    /\ k < Len(invoked) => invoked[k + 1].input = cb.val
                    /\ (k = Len(invoked) /\ cb.kind = "string") => ret = RetString(cb.val)
        /\ (StepRaised /\ steps_T[Len(invoked)].fn.op = "customTransform") =>
              IF call.handler
              THEN /\ ret = RetNull
                   /\ Len(handled) = 1
                   /\ handled[1].step = "customTransform"
                   /\ handled[1].error.isError
                   /\ handled[1].error.site = "customTransform"
                   /\ handled[1].valueSoFar = LastInvoked.input
              ELSE /\ ret.kind = "throw"
                   /\ ret.err.isError
                   /\ ret.err.site = "customTransform"
                   /\ handled = <<>>

\* try() on an assertion chain with customCheck steps
C20_A ==
    call.name = "try_A" =>
        /\ \A k \in 1..Len(invoked) :
              steps_A[k].fn.op = "customCheck" =>
                 LET cb == userFn(steps_A[k].fn.arg[1], invoked[k].input)
                 IN /\ (invoked[k].res = "raise") <=> (cb.kind # "boolean")
                    /\ invoked[k].res = "raise" => k = Len(invoked)
                    /\ invoked[k].res # "raise" =>
                          ((invoked[k].res = "true") <=> (cb.bool # invoked[k].negated))
        /\ ret.kind = "boolean" => ~StepRaised
        /\ (StepRaised /\ steps_A[Len(invoked)].fn.op = "customCheck") =>
              IF call.handler
              THEN /\ ret = RetNull
                   /\ Len(handled) = 1
                   /\ handled[1].step = "customCheck"
                   /\ handled[1].error.isError
                   /\ handled[1].error.site = "customCheck"
                   /\ handled[1].valueSoFar = currentValue_A
              ELSE /\ ret.kind = "throw"
                   /\ ret.err.isError
                   /\ ret.err.site = "customCheck"
                   /\ handled = <<>>

(* C20: a customCheck step raises exactly when its function throws or      *)
(* returns a value that is not a boolean, and a customTransform step       *)
(* exactly when its function throws or returns a value that is not a       *)
(* string; the raise ends the evaluation, is given to the handler under    *)
(* the step name "customCheck" / "customTransform" with try returning      *)
(* null, or is thrown when there is no handler, and only a value of the    *)
(* right type is returned or passed to the next step.                      *)
C20_CustomSteps == C20_T /\ C20_A

\* a customCheck whose function returned a number raised and was handled,
\* after a customCheck that returned a boolean
C20_Witness ==
    /\ call = Call("try_A", TRUE)
    /\ Len(invoked) = 2
    /\ steps_A[2].fn.arg = <<"number">>
    /\ ret = RetNull
    /\ Len(handled) = 1
    /\ handled[1].step = "customCheck"
    /\ handled[1].error.message = <<"Custom check function must return a boolean">>

\* what invocation k of the call made last returned, when it did not raise
Out(k) == IF k < Len(invoked) THEN invoked[k + 1].input ELSE ret.str

\* out is s with one backslash put before each metacharacter and no other
\* change: character k of s is at position k plus the number of
\* metacharacters among the first k, a backslash stands right before it when
\* it is a metacharacter, and out has no other character
EscapedExactly(s, out) ==
    LET pos(k) == k + Cardinality({ j \in 1..k : s[j] \in Meta })
    IN /\ Len(out) = pos(Len(s))
       /\ \A k \in 1..Len(s) :
             /\ out[pos(k)] = s[k]
             /\ s[k] \in Meta => out[pos(k) - 1] = "\\"
             /\ s[k] \notin Meta => pos(k) - 1 = pos(k - 1)

(* C21: for every subject over an alphabet with metacharacters and the     *)
(* backslash, unEscapeString applied to the result of escapeString gives   *)
(* the value escapeString was given, so that stringTransform(s)            *)
(* .escapeString().unEscapeString().try() returns s, and escapeString puts *)
(* exactly one backslash before each metacharacter and changes nothing     *)
(* else.                                                                   *)
C21_EscapeRoundTrip ==
    call.name = "try_T" =>
        /\ \A k \in 1..Len(invoked) :
              steps_T[k].fn.op = "escapeString" =>
                 /\ invoked[k].res = "ok"
                 /\ EscapedExactly(invoked[k].input, Out(k))
                 /\ (k < Len(steps_T) /\ steps_T[k + 1].fn.op = "unEscapeString") =>
                       /\ Len(invoked) > k
                       /\ Out(k + 1) = invoked[k].input
        /\ Names(steps_T) = <<"escapeString", "unEscapeString">> =>
              ret = RetString(currentValue_T)

\* the round trip of a subject with a backslash, a metacharacter and a letter
C21_Witness ==
    /\ call.name = "try_T"
    /\ Names(steps_T) = <<"escapeString", "unEscapeString">>
    /\ currentValue_T = <<"\\", ".", "a">>
    /\ invoked[2].input = <<"\\", "\\", "\\", ".", "a">>
    /\ ret = RetString(<<"\\", ".", "a">>)

(* C22: pad(len, c, where) with a fill c of one character returns a string *)
(* of length max(len, length of the value) that holds the value unchanged  *)
(* and the fill elsewhere; the fill before the value is the whole deficit  *)
(* for "start", nothing for "end" and floor(deficit / 2) for "both".       *)
C22_Pad ==
    call.name = "try_T" =>
        \A k \in 1..Len(invoked) :
            steps_T[k].fn.op = "pad" =>
               LET a == steps_T[k].fn.arg
                   v == invoked[k].input
                   r == Out(k)
                   deficit == IF a.len > Len(v) THEN a.len - Len(v) ELSE 0
                   before == CASE a.where = "start" -> deficit
                               [] a.where = "end" -> 0
                               [] OTHER -> deficit \div 2
               IN /\ invoked[k].res = "ok"
                  /\ Len(r) = Len(v) + deficit
                  /\ Len(r) >= a.len /\ Len(r) >= Len(v)
                  /\ Len(r) = a.len \/ Len(r) = Len(v)
                  /\ SubSeq(r, before + 1, before + Len(v)) = v
                  /\ \A i \in 1..Len(r) :
                        (i <= before \/ i > before + Len(v)) => <<r[i]>> = a.char

\* a value of two characters padded on both sides to five
C22_Witness ==
    /\ call.name = "try_T"
    /\ steps_T = <<Step("pad", Fn("pad", [len |-> 5, char |-> <<"-">>, where |-> "both"]))>>
    /\ currentValue_T = <<"a", ".">>
    /\ ret = RetString(<<"-", "a", ".", "-", "-">>)

\* x * 33
Times33(x) ==
    LET t == x.lo * 33
    IN Num(x.hi * 33 + t \div Limb, t % Limb)

\* the djb2 hash of the characters of v from i on with 32-bit wraparound:
\* hash becomes (hash * 33 + charCode) reduced to 32 bits
RECURSIVE djb2(_, _, _)
djb2(v, i, hash) ==
    IF i > Len(v) THEN hash
    ELSE CHOOSE result \in
            { djb2(v, i + 1, h) :
                h \in {ToInt32(Plus(Times33(hash), FromInt(CharCode[v[i]])))} } : TRUE

(* C23: for every input string toHash returns the decimal rendering of the *)
(* djb2 hash computed with 32-bit wraparound from 5381, a value within the *)
(* 32-bit integer range.                                                   *)
C23_Hash ==
    call.name = "try_T" =>
        \A k \in 1..Len(invoked) :
            steps_T[k].fn.op = "toHash" =>
               /\ invoked[k].res = "ok"
               /\ Out(k) = NumberToString(djb2(invoked[k].input, 1, FromInt(5381)))

(* C28: extractWhenBetween(p, s) raises on a value exactly when            *)
(* isBetween(p, s) is false on it, and when it succeeds it returns the     *)
(* characters between the end of the first p and the first s after it.     *)
C28_SameRule ==
    call.name = "try_T" =>
        \A k \in 1..Len(invoked) :
            steps_T[k].fn.op = "extractWhenBetween" =>
               LET a == steps_T[k].fn.arg
                   v == invoked[k].input
               IN /\ (invoked[k].res = "raise") <=> ~isBetween(a.prefix, a.suffix, v).bool
                  /\ invoked[k].res = "ok" =>
                        \E i \in 0..Len(v) :
                           /\ SubSeq(v, i + 1, i + Len(a.prefix)) = a.prefix
                           /\ indexOf(v, a.prefix, 0) = i
                           /\ SubSeq(v, i + Len(a.prefix) + Len(Out(k)) + 1,
                                        i + Len(a.prefix) + Len(Out(k)) + Len(a.suffix))
                                 = a.suffix
                           /\ SubSeq(v, i + Len(a.prefix) + 1,
                                        i + Len(a.prefix) + Len(Out(k))) = Out(k)
                           /\ ~includes(Out(k), a.suffix)

(* C30: split(sep).takeThatAt(i) raises for i < 0 or i >= the number of    *)
(* parts and getCharacterAt(i) raises for an index outside the value, so   *)
(* that try(h) calls h with the step's name and returns null.              *)
C30_OutOfRange ==
    call.name = "try_T" =>
        \A k \in 1..Len(invoked) :
            LET a == steps_T[k].fn.arg
                v == invoked[k].input
                outOfRange ==
                    CASE steps_T[k].fn.op = "takeThatAt" ->
                            a.index < 0 \/ a.index >= Len(split(v, a.splitter))
                      [] steps_T[k].fn.op = "getCharacterAt" ->
                            a.index < 0 \/ a.index >= Len(v)
                      [] OTHER -> FALSE
            IN outOfRange =>
                  /\ invoked[k].res = "raise"
                  /\ call.handler =>
                        /\ ret = RetNull
                        /\ Len(handled) = 1
                        /\ handled[1].step = steps_T[k].name


\* s is an initial part of t
IsPrefix(s, t) == Len(s) <= Len(t) /\ SubSeq(t, 1, Len(s)) = s

\* C24: a step list changes only by appending: every call other than an
\* entry call (an entry function, or a bridge that succeeds and starts the
\* other chain) leaves the steps recorded before it in place and in order,
\* and a bridge call that raises leaves both step lists exactly as they
\* were, so that try() after the raise returns what try() returned on the
\* list before it.
C24_Step ==
    /\ (call'.name \notin {"assertThat", "assertThatStart"} \/ ret'.kind = "throw")
          => IsPrefix(steps_A, steps_A')
    /\ (call'.name \notin {"stringTransform", "stringTransformStart"}
          \/ ret'.kind = "throw")
          => IsPrefix(steps_T, steps_T')
    /\ (call'.name \in {"assertThatStart", "stringTransformStart"}
          /\ ret'.kind = "throw")
          => /\ steps_A' = steps_A
             /\ steps_T' = steps_T
             /\ \A handler \in BOOLEAN :
                   /\ tryFn_A(steps_A', currentValue_A', negate_A', handler).ret
                        = tryFn_A(steps_A, currentValue_A, negate_A', handler).ret
                   /\ tryFn_T(steps_T', currentValue_T', handler).ret
                        = tryFn_T(steps_T, currentValue_T, handler).ret

C24_AppendOnly == [][C24_Step]_vars


\* C26: an evaluation of an assertion chain (try(), or the stringTransform()
\* bridge) flips the result of at most one step, whatever number of isNot()
\* calls were made: isNot() sets the flag and a second isNot() leaves it
\* set; once a step was evaluated with the flag set, every later step of the
\* evaluation is evaluated with the flag false and the flag is false when
\* the evaluation ends.  An evaluation of a transformation chain flips
\* nothing and returns what its steps and its subject give, whether the
\* flag is set or not.
C26_OneFlip ==
    /\ call.name = "isNot" => negate_A
    /\ call.name \in {"try_A", "stringTransformStart"} =>
          /\ Cardinality({ i \in DOMAIN invoked : invoked[i].negated }) <= 1
          /\ \A i \in DOMAIN invoked :
                invoked[i].negated =>
                    /\ \A j \in DOMAIN invoked : j > i => ~invoked[j].negated
                    /\ ~negate_A
    /\ call.name = "try_T" =>
          /\ \A i \in DOMAIN invoked : ~invoked[i].negated
          /\ IF FirstRaise_T(steps_T, currentValue_T) = 0
             THEN ret = RetString(Fold_T(steps_T, currentValue_T).val)
             ELSE IF call.handler THEN ret = RetNull ELSE ret.kind = "throw"

\* a try() of two assertion steps in which the first result was flipped and
\* the second was not
C26_Witness ==
    /\ call.name = "try_A"
    /\ Len(invoked) = 2
    /\ invoked[1].negated
    /\ ~invoked[2].negated
    /\ ~negate_A


\* C25: the length of a step list is the number of step-adding calls made
\* since the last entry call.  A catalog method and a continuation call
\* (takeThatAt, join, is) put exactly one step with a non-empty name at the
\* end of the list of their mode and change nothing else of the program's
\* state; split(), whereValueAt(), wordCount() and isNot() add no step; an
\* entry call (an entry function, or a bridge that succeeds) empties the
\* list of the chain it starts; every other call leaves both lengths as
\* they were.
C25_Step ==
    /\ call'.name = "addStep_T" =>
          /\ Len(steps_T') = Len(steps_T) + 1
          /\ Front(steps_T') = steps_T
          /\ steps_T'[Len(steps_T')].name # ""
          /\ UNCHANGED <<currentValue_T, state_A>>
    /\ call'.name = "addStep_A" =>
          /\ Len(steps_A') = Len(steps_A) + 1
          /\ Front(steps_A') = steps_A
          /\ steps_A'[Len(steps_A')].name # ""
          /\ UNCHANGED <<negate_A, currentValue_A, state_T>>
    /\ call'.name \in {"split", "whereValueAt", "wordCount", "isNot"} =>
          UNCHANGED <<steps_T, steps_A>>
    /\ (call'.name = "stringTransform"
          \/ (call'.name = "stringTransformStart" /\ ret'.kind # "throw"))
          => Len(steps_T') = 0
    /\ (call'.name = "assertThat"
          \/ (call'.name = "assertThatStart" /\ ret'.kind # "throw"))
          => Len(steps_A') = 0
    /\ (call'.name \notin {"addStep_T", "stringTransform"}
          /\ ~(call'.name = "stringTransformStart" /\ ret'.kind # "throw"))
          => Len(steps_T') = Len(steps_T)
    /\ (call'.name \notin {"addStep_A", "assertThat"}
          /\ ~(call'.name = "assertThatStart" /\ ret'.kind # "throw"))
          => Len(steps_A') = Len(steps_A)

C25_StepCount == [][C25_Step]_vars


\* C27: try() terminates: every call of try() that has begun returns (or
\* throws), whatever the steps, the subject and the integer arguments are,
\* chunk(size) and breakToLines(n) with size or n zero or negative
\* included.
C27_Terminates == (frame.pc # "idle") ~> (frame.pc = "idle")


\* C29: try() on a chain some of whose callbacks start and evaluate a chain
\* of their own runs the steps of the chain it was called on, each once and
\* in order up to the first that raises, runs no step of a callback's chain,
\* and returns what the chain it was called on gives on its subject.
C29_Step ==
    call'.name = "try_T" =>
        LET k == FirstRaise_T(steps_T, currentValue_T)
            ran == IF k = 0 THEN steps_T ELSE SubSeq(steps_T, 1, k)
        IN /\ Names(invoked') = Names(ran)
           /\ IF k = 0
              THEN ret' = RetString(Fold_T(steps_T, currentValue_T).val)
              ELSE IF call'.handler THEN ret' = RetNull ELSE ret'.kind = "throw"

C29_NestedChain == [][C29_Step]_vars

=============================================================================
